---- MODULE Spec2Model ----
(***************************************************************************)
(* Model of bundle-schema: the identity extractor SchemaId::from_json_value *)
(* and the registry SchemaMap (src/util/bundler.rs), and the input loader  *)
(* parse_inputs driven by main (src/util/inputs.rs, src/main.rs).          *)
(*                                                                         *)
(* Rust strings are sequences of one-character strings, so that the URL    *)
(* parser and strip_prefix work on characters.  The URL parser models      *)
(* url::Url::parse without a base for identifiers written with lower-case  *)
(* letters, digits and the characters . - + / : ? # and space, without     *)
(* userinfo, port, percent-escapes or the file scheme.                     *)
(***************************************************************************)
EXTENDS Integers, Sequences, FiniteSets, TLC

\* ------------------------------------------------------------------ bounds
\* Longest sequence of register_schema calls explored on one registry.
MaxOps == 3
\* Longest list of input names handed to parse_inputs.
MaxInputs == 3

\* ------------------------------------------------------- Option and Result
None == [some |-> FALSE]
Some(x) == [some |-> TRUE, v |-> x]
Ok(x) == [ok |-> TRUE, v |-> x]
Err(e) == [ok |-> FALSE, e |-> e]

\* ------------------------------------------------------------------ strings
Alpha == {"a", "b", "c", "d", "e", "f", "g", "h", "i", "j", "k", "l", "m", "n", "o", "p", "q", "r", "s", "t", "u", "v", "w", "x", "y", "z"}
Digit == {"0", "1", "2", "3", "4", "5", "6", "7", "8", "9"}
SchemeChar == Alpha \cup Digit \cup {"+", "-", "."}
HostChar == Alpha \cup Digit \cup {"-", "."}
SpecialSchemes == {<<"h", "t", "t", "p">>, <<"h", "t", "t", "p", "s">>, <<"w", "s">>, <<"w", "s", "s">>, <<"f", "t", "p">>}

\* Index of the first character of s that is in cs, Len(s) + 1 when none is.
FirstIn(s, cs) == IF \E i \in 1..Len(s) : s[i] \in cs THEN CHOOSE i \in 1..Len(s) : s[i] \in cs /\ \A j \in 1..(i - 1) : s[j] \notin cs ELSE Len(s) + 1
\* Index of the first character of s that is not in cs, Len(s) + 1 when none.
FirstNotIn(s, cs) == IF \E i \in 1..Len(s) : s[i] \notin cs THEN CHOOSE i \in 1..Len(s) : s[i] \notin cs /\ \A j \in 1..(i - 1) : s[j] \in cs ELSE Len(s) + 1
From(s, i) == SubSeq(s, i, Len(s))
Upto(s, i) == SubSeq(s, 1, i)
starts_with(s, c) == s # <<>> /\ s[1] = c

\* str::strip_prefix(char): Some(rest) when s starts with c, None otherwise.
strip_prefix(s, c) == IF starts_with(s, c) THEN Some(Tail(s)) ELSE None
\* Option::unwrap_or
unwrap_or(opt, default) == IF opt.some THEN opt.v ELSE default

\* ---------------------------------------------------------- url::Url::parse
RECURSIVE SplitSegments(_)
\* The segments of a path between its "/" separators.
SplitSegments(s) == LET i == FirstIn(s, {"/"}) IN IF i > Len(s) THEN <<s>> ELSE <<Upto(s, i - 1)>> \o SplitSegments(From(s, i + 1))

RECURSIVE NormalizeSegments(_, _)
\* The path state of the URL parser: "." is dropped, ".." removes the
\* segment before it, and either one in last position leaves an empty segment.
NormalizeSegments(segs, out) == IF segs = <<>> THEN out ELSE LET seg == Head(segs) last == Len(segs) = 1 IN IF seg = <<".", ".">> THEN NormalizeSegments(Tail(segs), (IF out = <<>> THEN out ELSE Upto(out, Len(out) - 1)) \o (IF last THEN << <<>> >> ELSE <<>>)) ELSE IF seg = <<".">> THEN NormalizeSegments(Tail(segs), out \o (IF last THEN << <<>> >> ELSE <<>>)) ELSE NormalizeSegments(Tail(segs), Append(out, seg))

RECURSIVE JoinSegments(_)
JoinSegments(segs) == IF segs = <<>> THEN <<>> ELSE <<"/">> \o Head(segs) \o JoinSegments(Tail(segs))

\* The parsed path of a hierarchical URL whose raw path is raw ("" or "/...").
ParsePath(raw) == JoinSegments(NormalizeSegments(SplitSegments(IF raw = <<>> THEN raw ELSE Tail(raw)), <<>>))

\* Url::as_str: the serialization of the parsed components.
Serialize(scheme, host, path, query, fragment) == scheme \o <<":">> \o (IF host.some THEN <<"/", "/">> \o host.v ELSE <<>>) \o path \o (IF query.some THEN <<"?">> \o query.v ELSE <<>>) \o (IF fragment.some THEN <<"#">> \o fragment.v ELSE <<>>)

MakeUrl(scheme, host, path, query, fragment) == [serialization |-> Serialize(scheme, host, path, query, fragment), scheme |-> scheme, host |-> host, path |-> path, query |-> query, fragment |-> fragment]

\* Url::parse(input) with no base URL.
Url_parse(input) ==
  LET colon == FirstNotIn(input, SchemeChar)
  IN IF input = <<>> \/ input[1] \notin Alpha \/ colon > Len(input) \/ input[colon] # ":"
     THEN Err("RelativeUrlWithoutBase")
     ELSE LET scheme == Upto(input, colon - 1)
              rest == From(input, colon + 1)
              hash == FirstIn(rest, {"#"})
              fragment == IF hash > Len(rest) THEN None ELSE Some(From(rest, hash + 1))
              beforeFragment == Upto(rest, hash - 1)
              qmark == FirstIn(beforeFragment, {"?"})
              query == IF qmark > Len(beforeFragment) THEN None ELSE Some(From(beforeFragment, qmark + 1))
              hier == Upto(beforeFragment, qmark - 1)
          IN IF scheme \in SpecialSchemes
             THEN LET authority == From(hier, FirstNotIn(hier, {"/"}))
                      hostEnd == FirstIn(authority, {"/"})
                      host == Upto(authority, hostEnd - 1)
                  IN IF host = <<>> THEN Err("EmptyHost")
                     ELSE IF \E i \in 1..Len(host) : host[i] \notin HostChar THEN Err("InvalidDomainCharacter")
                     ELSE Ok(MakeUrl(scheme, Some(host), ParsePath(From(authority, hostEnd)), query, fragment))
             ELSE IF Len(hier) >= 2 /\ hier[1] = "/" /\ hier[2] = "/"
             THEN LET authority == From(hier, 3)
                      hostEnd == FirstIn(authority, {"/"})
                      host == Upto(authority, hostEnd - 1)
                      raw == From(authority, hostEnd)
                  IN IF \E i \in 1..Len(host) : host[i] \notin HostChar THEN Err("InvalidDomainCharacter")
                     ELSE Ok(MakeUrl(scheme, Some(host), IF raw = <<>> THEN raw ELSE ParsePath(raw), query, fragment))
             ELSE IF starts_with(hier, "/")
             THEN Ok(MakeUrl(scheme, None, ParsePath(hier), query, fragment))
             ELSE Ok(MakeUrl(scheme, None, hier, query, fragment))

\* Url::path
path(u) == u.path
\* Url::as_str
as_str(u) == u.serialization

\* ------------------------------------------------------- serde_json::Value
\* A Value is a record [t, s, m]: t its JSON type, s the text of a number or
\* string, m the members of an object (member name -> Value).
NoMembers == [k \in {} |-> 0]
Number(s) == [t |-> "Number", s |-> s, m |-> NoMembers]
String(s) == [t |-> "String", s |-> s, m |-> NoMembers]
Object(m) == [t |-> "Object", s |-> <<>>, m |-> m]
\* Map::insert, also HashMap::insert: the value under k is replaced.
insert(map, k, v) == [key \in DOMAIN map \cup {k} |-> IF key = k THEN v ELSE map[key]]
\* Value::get(&str): a member of an object, None for every other Value.
Value_get(val, key) == IF val.t = "Object" /\ key \in DOMAIN val.m THEN Some(val.m[key]) ELSE None
\* Value::as_str
Value_as_str(val) == IF val.t = "String" THEN Some(val.s) ELSE None

\* ------------------------------------------ SchemaId::from_json_value
\* Variant: every leading "/" of the path is removed (trim_start_matches).
RECURSIVE trim_start_matches(_, _)
trim_start_matches(s, c) == IF starts_with(s, c) THEN trim_start_matches(Tail(s), c) ELSE s
from_json_value_trim_all(val) ==
  LET id_val == Value_get(val, <<"$", "i", "d">>)
      id_url == IF id_val.some /\ Value_as_str(id_val.v).some THEN Url_parse(id_val.v.s) ELSE Err("NoId")
  IN IF ~id_url.ok THEN None ELSE Some([full_id |-> id_url.v, relative_id |-> trim_start_matches(path(id_url.v), "/")])

\* Variant: the path is used as it is, nothing is removed.
from_json_value_no_strip(val) ==
  LET id_val == Value_get(val, <<"$", "i", "d">>)
      id_url == IF id_val.some /\ Value_as_str(id_val.v).some THEN Url_parse(id_val.v.s) ELSE Err("NoId")
  IN IF ~id_url.ok THEN None ELSE Some([full_id |-> id_url.v, relative_id |-> path(id_url.v)])

\* Variant: a string that is not a URL is resolved against a default base.
from_json_value_default_base(val) ==
  LET id_val == Value_get(val, <<"$", "i", "d">>)
      id_str == IF id_val.some THEN Value_as_str(id_val.v) ELSE None
      id_url == IF ~id_str.some THEN Err("NoId") ELSE IF Url_parse(id_str.v).ok THEN Url_parse(id_str.v) ELSE Ok(MakeUrl(<<"h", "t", "t", "p", "s">>, Some(<<"l", "o", "c", "a", "l", "h", "o", "s", "t">>), <<"/">> \o id_str.v, None, None))
  IN IF ~id_url.ok THEN None ELSE Some([full_id |-> id_url.v, relative_id |-> unwrap_or(strip_prefix(path(id_url.v), "/"), path(id_url.v))])

from_json_value(val) ==
  LET id_val == Value_get(val, <<"$", "i", "d">>)
  IN IF ~id_val.some THEN None
     ELSE LET id_val_str == Value_as_str(id_val.v)
          IN IF ~id_val_str.some THEN None
             ELSE LET id_url == Url_parse(id_val_str.v)
                  IN IF ~id_url.ok THEN None
                     ELSE LET relative_path == unwrap_or(strip_prefix(path(id_url.v), "/"), path(id_url.v))
                          IN Some([full_id |-> id_url.v, relative_id |-> relative_path])

\* ------------------------------------------------------------- SchemaMap
\* SchemaMap::new
new == NoMembers
\* Variant: an entry already present is kept (entry().or_insert()).
register_schema_keep_first(reg, schema) ==
  LET id == from_json_value(schema)
  IN IF id.some /\ id.v.relative_id \notin DOMAIN reg THEN insert(reg, id.v.relative_id, [id |-> id.v, node |-> schema]) ELSE reg

\* Variant: the entry is stored under the canonical identifier.
register_schema_key_full_id(reg, schema) ==
  LET id == from_json_value(schema)
  IN IF id.some THEN insert(reg, as_str(id.v.full_id), [id |-> id.v, node |-> schema]) ELSE reg

\* Variant: the entry is stored under the path of the canonical identifier.
register_schema_key_path(reg, schema) ==
  LET id == from_json_value(schema)
  IN IF id.some THEN insert(reg, path(id.v.full_id), [id |-> id.v, node |-> schema]) ELSE reg

\* Variant: the `$id` member is taken out of the stored document.
register_schema_strip_id(reg, schema) ==
  LET id == from_json_value(schema)
  IN IF id.some THEN insert(reg, id.v.relative_id, [id |-> id.v, node |-> Object([k \in DOMAIN schema.m \ {<<"$", "i", "d">>} |-> schema.m[k]])]) ELSE reg

\* Variant: a second registration under a key drops the entry as a conflict.
register_schema_drop_conflict(reg, schema) ==
  LET id == from_json_value(schema)
  IN IF ~id.some THEN reg ELSE IF id.v.relative_id \in DOMAIN reg THEN [k \in DOMAIN reg \ {id.v.relative_id} |-> reg[k]] ELSE insert(reg, id.v.relative_id, [id |-> id.v, node |-> schema])

\* SchemaMap::register_schema: the registry after the call.
register_schema(reg, schema) ==
  LET id == from_json_value(schema)
  IN IF id.some THEN insert(reg, id.v.relative_id, [id |-> id.v, node |-> schema]) ELSE reg
\* Variant: a leading "/" of the requested identifier is ignored.
get_normalized(reg, which) == LET k == unwrap_or(strip_prefix(which, "/"), which) IN IF k \in DOMAIN reg THEN Some(reg[k].node) ELSE None

\* SchemaMap::get
get(reg, which) == IF which \in DOMAIN reg THEN Some(reg[which].node) ELSE None

\* ------------------------------------------------ serde_json::from_reader
\* The JSON reader for texts without white space whose values are unsigned
\* integers, strings without escapes, and objects of such values.
QUOTE == "\""
\* The character at position i, "" at the end of the input.
At(s, i) == IF i \in 1..Len(s) THEN s[i] ELSE ""
Parsed(v, next) == [ok |-> TRUE, v |-> v, next |-> next]
Failed(e) == [ok |-> FALSE, e |-> e]
ParseNumber(s, i) == LET next == i + FirstNotIn(From(s, i), Digit) - 1 IN IF At(s, i) = "0" /\ next > i + 1 THEN Failed("TrailingCharacters") ELSE Parsed(Number(SubSeq(s, i, next - 1)), next)
ParseString(s, i) == LET close == i + FirstIn(From(s, i + 1), {QUOTE}) IN IF At(s, i) # QUOTE THEN Failed("ExpectedString") ELSE IF close > Len(s) THEN Failed("EofWhileParsingString") ELSE Parsed(String(SubSeq(s, i + 1, close - 1)), close + 1)
ParseScalar(s, i) == IF At(s, i) \in Digit THEN ParseNumber(s, i) ELSE IF At(s, i) = QUOTE THEN ParseString(s, i) ELSE IF At(s, i) = "" THEN Failed("EofWhileParsingValue") ELSE Failed("ExpectedSomeValue")

RECURSIVE ParseMembers(_, _, _)
\* The members of an object from position i on; a repeated name keeps the
\* last value.
ParseMembers(s, i, m) ==
  LET key == ParseString(s, i)
  IN IF ~key.ok THEN Failed("KeyMustBeAString")
     ELSE IF At(s, key.next) # ":" THEN Failed("ExpectedColon")
     ELSE LET val == ParseScalar(s, key.next + 1)
          IN IF ~val.ok THEN val
             ELSE IF At(s, val.next) = "," THEN ParseMembers(s, val.next + 1, insert(m, key.v.s, val.v))
             ELSE IF At(s, val.next) = "}" THEN Parsed(Object(insert(m, key.v.s, val.v)), val.next + 1)
             ELSE Failed("ExpectedObjectCommaOrEnd")

ParseValue(s, i) == IF At(s, i) = "{" THEN (IF At(s, i + 1) = "}" THEN Parsed(Object(NoMembers), i + 2) ELSE ParseMembers(s, i + 1, NoMembers)) ELSE ParseScalar(s, i)

\* serde_json::from_reader: one value, then the end of the input.
from_reader(bytes) == LET r == ParseValue(bytes, 1) IN IF ~r.ok THEN Err(r.e) ELSE IF r.next # Len(bytes) + 1 THEN Err("TrailingCharacters") ELSE Ok(r.v)

\* ------------------------------------------------------------ the files
FileNames == {"schema.json", "noid.json", "number.json", "broken.json", "missing.json"}
\* The content of each file that File::open can open.
Files ==
  [fname \in FileNames \ {"missing.json"} |->
     CASE fname = "schema.json" -> <<"{", "\"", "$", "i", "d", "\"", ":", "\"", "h", "t", "t", "p", "s", ":", "/", "/", "f", "o", "o", ".", "c", "o", "m", "/", "s", "o", "m", "e", "l", "o", "c", "a", "t", "i", "o", "n", "/", "s", "c", "h", "e", "m", "a", ".", "j", "s", "o", "n", "\"", ",", "\"", "d", "e", "s", "c", "r", "i", "p", "t", "i", "o", "n", "\"", ":", "\"", "x", "\"", "}">>
       [] fname = "noid.json" -> <<"{", "\"", "d", "e", "s", "c", "r", "i", "p", "t", "i", "o", "n", "\"", ":", "\"", "n", "o", " ", "i", "d", " ", "h", "e", "r", "e", "\"", "}">>
       [] fname = "number.json" -> <<"4", "2">>
       [] fname = "broken.json" -> <<"{", "\"", "$", "i", "d", "\"", ":">>]
\* File::open
File_open(fname) == IF fname \in DOMAIN Files THEN Ok(Files[fname]) ELSE Err("NotFound")

\* ----------------------------------------------------------- util::inputs
parse_one_file(fname) ==
  LET fh == File_open(fname)
  IN IF ~fh.ok THEN None
     ELSE LET parsed == from_reader(fh.v) IN IF ~parsed.ok THEN None ELSE Some(parsed.v)

RECURSIVE parse_inputs_map_while(_)
\* Variant: loading stops at the first input that fails (map_while).
parse_inputs_map_while(files) == IF files = <<>> THEN <<>> ELSE LET one == parse_one_file(Head(files)) IN IF one.some THEN <<one.v>> \o parse_inputs_map_while(Tail(files)) ELSE <<>>

RECURSIVE parse_inputs(_)
\* input_files.into_iter().filter_map(parse_one_file).collect()
parse_inputs(files) == IF files = <<>> THEN <<>> ELSE LET one == parse_one_file(Head(files)) IN (IF one.some THEN <<one.v>> ELSE <<>>) \o parse_inputs(Tail(files))

\* ------------------------------------------------------------ the inputs
SchemaDoc == Object(insert(insert(NoMembers, <<"$", "i", "d">>, String(<<"h", "t", "t", "p", "s", ":", "/", "/", "f", "o", "o", ".", "c", "o", "m", "/", "s", "o", "m", "e", "l", "o", "c", "a", "t", "i", "o", "n", "/", "s", "c", "h", "e", "m", "a", ".", "j", "s", "o", "n">>)), <<"d", "e", "s", "c", "r", "i", "p", "t", "i", "o", "n">>, String(<<"I", "'", "m", " ", "j", "u", "s", "t", " ", "a", " ", "s", "c", "h", "e", "m", "a">>)))
DocA == Object(insert(NoMembers, <<"$", "i", "d">>, String(<<"h", "t", "t", "p", "s", ":", "/", "/", "f", "o", "o", ".", "c", "o", "m", "/", "x", "/", "y", ".", "j", "s", "o", "n">>)))
DocB == Object(insert(NoMembers, <<"$", "i", "d">>, String(<<"h", "t", "t", "p", "s", ":", "/", "/", "b", "a", "r", ".", "c", "o", "m", "/", "x", "/", "y", ".", "j", "s", "o", "n">>)))
DocABC == Object(insert(NoMembers, <<"$", "i", "d">>, String(<<"h", "t", "t", "p", "s", ":", "/", "/", "f", "o", "o", ".", "c", "o", "m", "/", "a", "/", "b", "/", "c", ".", "j", "s", "o", "n">>)))
DocDoubleSlash == Object(insert(NoMembers, <<"$", "i", "d">>, String(<<"h", "t", "t", "p", "s", ":", "/", "/", "f", "o", "o", ".", "c", "o", "m", "/", "/", "a", "/", "b">>)))
DocRoot == Object(insert(NoMembers, <<"$", "i", "d">>, String(<<"h", "t", "t", "p", "s", ":", "/", "/", "f", "o", "o", ".", "c", "o", "m">>)))
DocEmptyPath == Object(insert(NoMembers, <<"$", "i", "d">>, String(<<"u", "r", "n", ":">>)))
DocUrn == Object(insert(NoMembers, <<"$", "i", "d">>, String(<<"u", "r", "n", ":", "x">>)))
DocNoId == Object(insert(NoMembers, <<"d", "e", "s", "c", "r", "i", "p", "t", "i", "o", "n">>, String(<<"n", "o", " ", "i", "d", " ", "h", "e", "r", "e">>)))
DocNumberId == Object(insert(NoMembers, <<"$", "i", "d">>, Number(<<"4", "2">>)))
DocNotUrl == Object(insert(NoMembers, <<"$", "i", "d">>, String(<<"n", "o", "t", " ", "a", " ", "u", "r", "l">>)))
DocNumber == Number(<<"4", "2">>)
\* The documents handed to register_schema.
Docs == {SchemaDoc, DocA, DocB, DocABC, DocDoubleSlash, DocRoot, DocUrn, DocEmptyPath, DocNoId, DocNumberId, DocNotUrl, DocNumber}
\* The relative identifiers handed to get.
Keys == {<<"s", "o", "m", "e", "l", "o", "c", "a", "t", "i", "o", "n", "/", "s", "c", "h", "e", "m", "a", ".", "j", "s", "o", "n">>, <<"s", "o", "m", "e", "l", "o", "c", "a", "t", "i", "o", "n", "/", "m", "i", "s", "s", "i", "n", "g", "-", "v", "a", "l", "u", "e", ".", "j", "s", "o", "n">>, <<"x", "/", "y", ".", "j", "s", "o", "n">>, <<"/", "x", "/", "y", ".", "j", "s", "o", "n">>, <<"/", "a", "/", "b">>, <<>>}

VARIABLES registry, log, last, pc, opts, max_level, input_details
vars == <<registry, log, last, pc, opts, max_level, input_details>>

Call(op, schema, which, ret) == [op |-> op, schema |-> schema, which |-> which, ret |-> ret]

\* A SchemaMap right after SchemaMap::new, used as a library: main is not
\* running.
Init ==
  /\ registry = new
  /\ log = <<>>
  /\ last = Call("new", None, None, None)
  /\ pc = "lib"
  /\ opts = [input |-> <<>>, debug |-> FALSE]
  /\ max_level = "Off"
  /\ input_details = <<>>

\* registry.register_schema(schema)
Register(schema) ==
  /\ pc = "lib"
  /\ Len(log) < MaxOps
  /\ registry' = register_schema(registry, schema)
  /\ log' = Append(log, schema)
  /\ last' = Call("register_schema", Some(schema), None, None)
  /\ UNCHANGED <<pc, opts, max_level, input_details>>

\* registry.get(which)
Get(which) ==
  /\ pc = "lib"
  /\ last' = Call("get", None, Some(which), get(registry, which))
  /\ UNCHANGED <<registry, log, pc, opts, max_level, input_details>>

Next ==
  \/ \E schema \in Docs : Register(schema)
  \/ \E which \in Keys : Get(which)

Spec == Init /\ [][Next]_vars

\* ------------------------------------------------------------------- main
\* The lists of at most n elements of S.
SeqUpTo(S, n) == UNION {[1..k -> S] : k \in 0..n}

\* CliArgs::parse has returned opts.
InitMain ==
  /\ registry = new
  /\ log = <<>>
  /\ last = Call("new", None, None, None)
  /\ pc = "init_logging"
  /\ opts \in [input : SeqUpTo(FileNames, MaxInputs), debug : BOOLEAN]
  /\ max_level = "Off"
  /\ input_details = <<>>

\* logging::init_logging(opts.debug)
init_logging ==
  /\ pc = "init_logging"
  /\ max_level' = IF opts.debug THEN "Debug" ELSE "Info"
  /\ pc' = "parse_inputs"
  /\ UNCHANGED <<registry, log, last, opts, input_details>>

\* let input_details = inputs::parse_inputs(opts.input)
main_parse_inputs ==
  /\ pc = "parse_inputs"
  /\ input_details' = parse_inputs(opts.input)
  /\ pc' = "done"
  /\ UNCHANGED <<registry, log, last, opts, max_level>>

NextMain == init_logging \/ main_parse_inputs

SpecMain == InitMain /\ [][NextMain]_vars

\* ----------------------------------------------------------------- claims
ID == <<"$", "i", "d">>
\* The three ways a document has no identity, read off the document itself.
NoIdField(d) == d.t # "Object" \/ ID \notin DOMAIN d.m
IdNotString(d) == ~NoIdField(d) /\ d.m[ID].t # "String"
IdNotUrl(d) == ~NoIdField(d) /\ d.m[ID].t = "String" /\ ~Url_parse(d.m[ID].s).ok
NoIdentity(d) == NoIdField(d) \/ IdNotString(d) \/ IdNotUrl(d)
HasUrlId(d) == ~NoIdentity(d)
\* The canonical URL and the relative identifier of a document with a URL `$id`.
CanonicalOf(d) == Url_parse(d.m[ID].s).v
RelativeOf(d) == from_json_value(d).v.relative_id
\* The documents of the log registered after position i under the key of log[i].
Overwritten(i) == \E j \in (i + 1)..Len(log) : HasUrlId(log[j]) /\ RelativeOf(log[j]) = RelativeOf(log[i])
IsRegisterOf(d) == log' = Append(log, d)

\* C1 (as stated): once a document with a valid identity is registered, every
\* later lookup of its relative identifier returns that document, whatever is
\* registered afterwards.
C1_AlwaysRetrievable ==
  \A i \in 1..Len(log) : HasUrlId(log[i]) =>
    /\ get(registry, RelativeOf(log[i])) = Some(log[i])
    /\ (last.op = "get" /\ last.which = Some(RelativeOf(log[i])) => last.ret = Some(log[i]))

\* C1 (amended): a registered document with a valid identity is returned
\* unmodified by every later lookup of its relative identifier for as long as
\* no later registered document maps to the same relative identifier.
C1_RetrievableUntilOverwritten ==
  \A i \in 1..Len(log) : HasUrlId(log[i]) /\ ~Overwritten(i) =>
    /\ get(registry, RelativeOf(log[i])) = Some(log[i])
    /\ (last.op = "get" /\ last.which = Some(RelativeOf(log[i])) => last.ret = Some(log[i]))

C1_Witness ==
  /\ Len(log) >= 2 /\ HasUrlId(log[1]) /\ ~Overwritten(1) /\ HasUrlId(log[2])
  /\ last.op = "get" /\ last.which = Some(RelativeOf(log[1])) /\ last.ret = Some(log[1])

\* C2: registering B whose canonical identifier differs from that of the
\* entry already stored under B's relative identifier r makes lookup(r) return
\* B, leaves the number of entries unchanged and stores B's canonical
\* identifier under r; the call returns normally.
C2_OverwriteOnCollision ==
  [][\A b \in Docs :
       (/\ IsRegisterOf(b) /\ HasUrlId(b)
        /\ \E i \in 1..Len(log) :
             /\ HasUrlId(log[i]) /\ ~Overwritten(i)
             /\ RelativeOf(log[i]) = RelativeOf(b)
             /\ as_str(CanonicalOf(log[i])) # as_str(CanonicalOf(b)))
       => /\ get(registry', RelativeOf(b)) = Some(b)
          /\ Cardinality(DOMAIN registry') = Cardinality(DOMAIN registry)
          /\ RelativeOf(b) \in DOMAIN registry'
          /\ as_str(registry'[RelativeOf(b)].id.full_id) = as_str(CanonicalOf(b))
          /\ last'.op = "register_schema"]_vars

C2_Witness ==
  /\ Len(log) >= 2 /\ last.op = "register_schema"
  /\ HasUrlId(log[Len(log)]) /\ HasUrlId(log[Len(log) - 1])
  /\ RelativeOf(log[Len(log)]) = RelativeOf(log[Len(log) - 1])
  /\ as_str(CanonicalOf(log[Len(log)])) # as_str(CanonicalOf(log[Len(log) - 1]))
  /\ registry[RelativeOf(log[Len(log)])].node = log[Len(log)]

\* C3: registering a document with no `$id` member (or that is not an
\* object), with a `$id` that is not a string, or with a `$id` string that is
\* not a URL leaves the registry exactly as it was, and the call returns.
C3_NoIdentityIsNoOp ==
  [][\A d \in Docs : IsRegisterOf(d) /\ NoIdentity(d) =>
       /\ registry' = registry
       /\ DOMAIN registry' = DOMAIN registry
       /\ Cardinality(DOMAIN registry') = Cardinality(DOMAIN registry)
       /\ last'.op = "register_schema"]_vars

C3_Witness ==
  /\ Len(log) = 3 /\ DOMAIN registry # {}
  /\ {log[2], log[3]} \subseteq {DocNumberId, DocNotUrl, DocNoId, DocNumber}
  /\ last.op = "register_schema" /\ IdNotUrl(last.schema.v)

\* The relative identifier r is the path p without one leading "/".
StrippedOnce(p, r) == IF starts_with(p, "/") THEN p = <<"/">> \o r ELSE r = p

\* C4: for a document whose `$id` parses as a URL the relative identifier is
\* the URL's path with exactly one leading "/" removed, or the path itself
\* when it has none: /a/b/c.json gives a/b/c.json, //a/b gives /a/b, and
\* https://foo.com/somelocation/schema.json gives somelocation/schema.json
\* with the full URL as canonical identifier.
C4_RelativeIsPathStrippedOnce ==
  last.op = "register_schema" /\ HasUrlId(last.schema.v) =>
    LET d == last.schema.v
        u == CanonicalOf(d)
        p == path(u)
    IN \E k \in DOMAIN registry :
         /\ registry[k].node = d
         /\ registry[k].id.full_id = u
         /\ registry[k].id.relative_id = k
         /\ StrippedOnce(p, k)
         /\ (p = <<"/", "a", "/", "b", "/", "c", ".", "j", "s", "o", "n">> => k = <<"a", "/", "b", "/", "c", ".", "j", "s", "o", "n">>)
         /\ (p = <<"/", "/", "a", "/", "b">> => k = <<"/", "a", "/", "b">>)
         /\ (d.m[ID].s = <<"h", "t", "t", "p", "s", ":", "/", "/", "f", "o", "o", ".", "c", "o", "m", "/", "s", "o", "m", "e", "l", "o", "c", "a", "t", "i", "o", "n", "/", "s", "c", "h", "e", "m", "a", ".", "j", "s", "o", "n">> => k = <<"s", "o", "m", "e", "l", "o", "c", "a", "t", "i", "o", "n", "/", "s", "c", "h", "e", "m", "a", ".", "j", "s", "o", "n">> /\ as_str(u) = <<"h", "t", "t", "p", "s", ":", "/", "/", "f", "o", "o", ".", "c", "o", "m", "/", "s", "o", "m", "e", "l", "o", "c", "a", "t", "i", "o", "n", "/", "s", "c", "h", "e", "m", "a", ".", "j", "s", "o", "n">>)

C4_Witness ==
  /\ last.op = "register_schema" /\ last.schema = Some(DocDoubleSlash)
  /\ {<<"/", "a", "/", "b">>, <<"a", "/", "b", "/", "c", ".", "j", "s", "o", "n">>, <<"s", "o", "m", "e", "l", "o", "c", "a", "t", "i", "o", "n", "/", "s", "c", "h", "e", "m", "a", ".", "j", "s", "o", "n">>} \subseteq DOMAIN registry

\* C5 (as stated): every stored key and relative identifier never starts with
\* a path separator, and is empty only when the canonical path is empty.
C5_NeverAbsoluteNorEmpty ==
  \A k \in DOMAIN registry :
    LET r == registry[k].id.relative_id
        p == path(registry[k].id.full_id)
    IN /\ ~starts_with(k, "/") /\ ~starts_with(r, "/")
       /\ (k = <<>> \/ r = <<>> => p = <<>>)

\* C5 (amended): a stored key or relative identifier starts with a path
\* separator only when the canonical path starts with two separators, and is
\* empty only when the canonical path is empty or is exactly "/".
C5_AbsoluteOnlyAfterDoubleSlash ==
  \A k \in DOMAIN registry :
    LET r == registry[k].id.relative_id
        p == path(registry[k].id.full_id)
    IN /\ (starts_with(k, "/") \/ starts_with(r, "/") => Len(p) >= 2 /\ p[1] = "/" /\ p[2] = "/")
       /\ (k = <<>> \/ r = <<>> => p \in {<<>>, <<"/">>})

C5_Witness ==
  /\ <<"/", "a", "/", "b">> \in DOMAIN registry /\ <<>> \in DOMAIN registry
  /\ path(registry[<<>>].id.full_id) \in {<<>>, <<"/">>}
  /\ <<"x", "/", "y", ".", "j", "s", "o", "n">> \in DOMAIN registry

\* C6: registering a document with a valid identity again right after it was
\* registered leaves the registry, and so its size, as the first registration
\* left it, and lookup of its relative identifier returns the document after
\* the first and after the second registration.
C6_IdempotentReRegistration ==
  [][\A d \in Docs :
       (IsRegisterOf(d) /\ HasUrlId(d) /\ Len(log) >= 1 /\ log[Len(log)] = d)
       => /\ Cardinality(DOMAIN registry') = Cardinality(DOMAIN registry)
          /\ registry' = registry
          /\ get(registry, RelativeOf(d)) = Some(d)
          /\ get(registry', RelativeOf(d)) = Some(d)]_vars

C6_Witness ==
  /\ Len(log) = 3 /\ HasUrlId(log[1]) /\ HasUrlId(log[3]) /\ log[3] = log[2]
  /\ RelativeOf(log[1]) = RelativeOf(log[3]) /\ log[1] # log[3]
  /\ last.op = "register_schema" /\ get(registry, RelativeOf(log[3])) = Some(log[3])

RECURSIVE RegisterAll(_, _)
\* The registry after registering the documents of docs, in order, into reg.
RegisterAll(reg, docs) == IF docs = <<>> THEN reg ELSE RegisterAll(register_schema(reg, Head(docs)), Tail(docs))
\* No two documents of docs with a valid identity share a relative identifier.
NoSharedRelative(docs) == \A i, j \in 1..Len(docs) : i # j /\ HasUrlId(docs[i]) /\ HasUrlId(docs[j]) => RelativeOf(docs[i]) # RelativeOf(docs[j])
\* The position of the last document of the log that maps to key k.
LastFor(k) == CHOOSE i \in 1..Len(log) : HasUrlId(log[i]) /\ RelativeOf(log[i]) = k /\ ~Overwritten(i)

\* C7: when no two registered documents with a valid identity share a
\* relative identifier, registering them in any order gives the same
\* registry; in general the registry holds, under each relative identifier
\* some registered document maps to, the last such document and its identity.
C7_OrderIndependence ==
  /\ NoSharedRelative(log) =>
       \A perm \in Permutations(1..Len(log)) :
         RegisterAll(new, [i \in 1..Len(log) |-> log[perm[i]]]) = registry
  /\ DOMAIN registry = {RelativeOf(log[i]) : i \in {j \in 1..Len(log) : HasUrlId(log[j])}}
  /\ \A k \in DOMAIN registry :
       /\ registry[k].node = log[LastFor(k)]
       /\ registry[k].id = [full_id |-> CanonicalOf(log[LastFor(k)]), relative_id |-> k]

C7_Witness ==
  /\ Len(log) = 3 /\ NoSharedRelative(log) /\ Cardinality(DOMAIN registry) = 3

\* C8: lookup(k) returns the document stored under exactly k, None when no
\* entry has that key, and leaves the registry as it was.
C8_LookupIsPureRead ==
  [][last'.op = "get" =>
       LET k == last'.which.v
       IN /\ registry' = registry
          /\ DOMAIN registry' = DOMAIN registry
          /\ (k \in DOMAIN registry => last'.ret = Some(registry[k].node))
          /\ (k \notin DOMAIN registry => last'.ret = None)]_vars

C8_Witness ==
  /\ last.op = "get" /\ last.which = Some(<<"s", "o", "m", "e", "l", "o", "c", "a", "t", "i", "o", "n", "/", "m", "i", "s", "s", "i", "n", "g", "-", "v", "a", "l", "u", "e", ".", "j", "s", "o", "n">>) /\ last.ret = None
  /\ DOMAIN registry = {<<"s", "o", "m", "e", "l", "o", "c", "a", "t", "i", "o", "n", "/", "s", "c", "h", "e", "m", "a", ".", "j", "s", "o", "n">>}
  /\ get(registry, <<"s", "o", "m", "e", "l", "o", "c", "a", "t", "i", "o", "n", "/", "s", "c", "h", "e", "m", "a", ".", "j", "s", "o", "n">>) = Some(SchemaDoc)

\* The input names whose file opens and parses as JSON.
Survives(fname) == fname \in DOMAIN Files /\ from_reader(Files[fname]).ok
Surviving == SelectSeq(opts.input, Survives)

\* C9: parse_inputs returns exactly the parsed values of the inputs that open
\* and parse, one per surviving input and in the order of the input names; an
\* input that fails contributes nothing and does not stop the ones after it.
C9_ParseInputsKeepsSurvivorsInOrder ==
  pc = "done" =>
    /\ Len(input_details) = Len(Surviving)
    /\ \A k \in 1..Len(Surviving) : input_details[k] = from_reader(Files[Surviving[k]]).v
    /\ \A i \in 1..Len(opts.input) : Survives(opts.input[i]) =>
         input_details[Len(SelectSeq(Upto(opts.input, i), Survives))] = from_reader(Files[opts.input[i]]).v

C9_Witness ==
  /\ pc = "done" /\ Len(opts.input) = 3
  /\ ~Survives(opts.input[1]) /\ Survives(opts.input[2]) /\ Survives(opts.input[3])
  /\ opts.input[2] = opts.input[3] /\ Len(input_details) = 2

\* C10: every entry is stored under its own relative identifier, and its
\* identity is the one the extractor derives from its stored document.
C10_KeyMatchesIdentity ==
  \A k \in DOMAIN registry :
    /\ registry[k].id.relative_id = k
    /\ from_json_value(registry[k].node) = Some(registry[k].id)

C10_Witness ==
  /\ Cardinality(DOMAIN registry) = 2 /\ Len(log) = 3
  /\ <<"x", "/", "y", ".", "j", "s", "o", "n">> \in DOMAIN registry /\ registry[<<"x", "/", "y", ".", "j", "s", "o", "n">>].node = DocB
====
